---- MODULE Spec2Model ----
(***************************************************************************)
(* Model of pytorch_lightning.callbacks.batch_size_finder.BatchSizeFinder: *)
(* the save / mutate / search / restore protocol of scale_batch_size and   *)
(* the two search strategies (_run_power_scaling, _run_binary_scaling).    *)
(*                                                                         *)
(* One behaviour is one invocation of scale_batch_size on one trainer.     *)
(* The configuration of the finder and of the trainer is drawn in Init and *)
(* never changes; the position inside scale_batch_size is pc.              *)
(***************************************************************************)
EXTENDS Integers, Sequences, FiniteSets, TLC

(* ------------------------------------------------------------------ *)
(* Bounds of the enumerated inputs                                     *)
(* ------------------------------------------------------------------ *)
MaxInit == 3
MaxTrials == 3
MaxLen == 5
MaxThreshold == 6
MaxPrior == 2
MaxDataloaders == 2

(* ------------------------------------------------------------------ *)
(* Program constants                                                   *)
(* ------------------------------------------------------------------ *)
DefaultStepsPerTrial == 3
DefaultInitVal == 2
DefaultMaxTrials == 25
\* Python's None for the optional integers (high, value)
NoneVal == -1
\* low = 1 at the start of _run_binary_scaling
InitialLow == 1

VARIABLES
    \* BatchSizeFinder.__init__ arguments and attributes
    mode, steps_per_trial, init_val, max_trials, early_exit,
    optimal_batch_size, dumped_params,
    \* trainer configuration
    fn, fast_dev_run, has_verbose, has_len, dataset_len,
    \* what setup() reads: distributed strategy, where the train dataloader
    \* comes from, what the stage's dataloader hook returns, the batch field
    is_distributed, train_source_is_module, eval_is_list, n_eval_dataloaders,
    has_batch_arg,
    \* what loop.run() will do: "free" (any outcome), "threshold" (OOM iff
    \* batch size >= oom_threshold), "never" (always succeeds)
    oracle, oom_threshold,
    \* live orchestration state of the trainer
    logger, callbacks, max_steps, limit_batches, verbose,
    loop_state, restarting,
    \* model: weights, hyperparameter store, the dataloader built from it
    model_state, batch_size, dl_batch_size,
    \* checkpoint artifact: "none" or the model state saved in it
    ckpt,
    \* locals of scale_batch_size and of the strategies
    pc, new_size, low, high, count, iter, raised,
    \* history of the run (observation only)
    pre, trials, n_ok, ok_at, oom_at, last_tried, last_ok, last_outcome, stop,
    ckpt_saves, ckpt_reloaded, signals,
    \* direct calls of _adjust_batch_size with an explicit value: the value,
    \* the number of calls made, what the first call wrote, the last `changed`
    adj

setupVars == <<is_distributed, train_source_is_module, eval_is_list,
               n_eval_dataloaders, has_batch_arg>>
cfgVars == <<mode, steps_per_trial, init_val, max_trials, early_exit,
             fn, fast_dev_run, has_verbose, has_len, dataset_len,
             oracle, oom_threshold, pre, setupVars>>
orchVars == <<logger, callbacks, max_steps, limit_batches, verbose>>
loopVars == <<loop_state, restarting>>
searchVars == <<new_size, low, high, count, iter>>
trialVars == <<trials, n_ok, ok_at, oom_at, last_tried, last_ok, last_outcome>>
histVars == <<trialVars, signals>>
ckptVars == <<ckpt, ckpt_saves, ckpt_reloaded>>

vars == <<cfgVars, orchVars, loopVars, searchVars, histVars, ckptVars,
          optimal_batch_size, dumped_params, model_state, batch_size,
          dl_batch_size, pc, raised, stop, adj>>

Min(a, b) == IF a <= b THEN a ELSE b

SUPPORTED_MODES == {"power", "binsearch"}

\* running_stage.dataloader_prefix for the evaluation entry points
DataloaderPrefix(f) ==
    CASE f = "validate" -> "val"
      [] f = "test" -> "test"
      [] f = "predict" -> "predict"
      [] OTHER -> "train"

EmptyDict == [k \in {} |-> 0]

(* ------------------------------------------------------------------ *)
(* Collaborators of the trainer that the finder calls                  *)
(* ------------------------------------------------------------------ *)

\* len(dataloader): number of batches of the dataloader built with
\* dl_batch_size over a dataset of dataset_len samples
LenDataloader == (dataset_len + dl_batch_size - 1) \div dl_batch_size

\* the step budget the loop runs with: fit_loop.max_steps in fit, the
\* limit_<prefix>_batches of the running stage otherwise
StepBudget ==
    IF fn = "fit" THEN max_steps ELSE limit_batches[DataloaderPrefix(fn)]

\* outcomes loop.run() can have at batch size b
TrialOutcomes(b) ==
    CASE oracle = "free" -> {"ok", "oom", "fatal"}
      [] oracle = "threshold" -> IF b >= oom_threshold THEN {"oom"} ELSE {"ok"}
      [] OTHER -> {"ok"}

\* progress state loop.run() can leave behind: the whole budget on success,
\* any shorter prefix of it when a step raised
LoopRunStates(o) ==
    IF o = "ok" THEN {loop_state + StepBudget}
    ELSE {loop_state + k : k \in 0..(StepBudget - 1)} \cup {loop_state}

\* is_oom_error(exception) for the RuntimeError a trial raised
IsOomErrorNever(o) == FALSE
IsOomErrorAlways(o) == TRUE
IsOomError(o) == o = "oom"

(* ------------------------------------------------------------------ *)
(* _is_valid_batch_size and _adjust_batch_size                         *)
(* ------------------------------------------------------------------ *)
IsValidBatchSizeAlways(n) == TRUE
IsValidBatchSize(n) == ~has_len \/ n <= LenDataloader

\* new_size = value if value is not None else int(batch_size * factor)
ProposedSize(factor, value) ==
    IF value # NoneVal THEN value ELSE batch_size * factor

ClampToDataloader(n) ==
    IF ~IsValidBatchSize(n) THEN Min(n, LenDataloader) ELSE n
ClampNever(n) == n
ClampToDataset(n) ==
    IF ~IsValidBatchSize(n) THEN Min(n, dataset_len) ELSE n

\* the size _adjust_batch_size writes to the model and returns
AdjustedSize(factor, value) == ClampToDataset(ProposedSize(factor, value))

\* changed = new_size != batch_size
Changed(n) == n # batch_size

\* the batch size the dataloaders are built with after the adjustment:
\* _reset_dataloaders is called only when the size changed
DataloaderAfter(n) == IF Changed(n) THEN n ELSE dl_batch_size

(* ------------------------------------------------------------------ *)
(* _dump_params, _reset_params, _restore_params                        *)
(* ------------------------------------------------------------------ *)
DumpedCommon ==
    [logger |-> logger, callbacks |-> callbacks, loop_state_dict |-> loop_state]

\* the dict _dump_params builds for the running phase
DumpParamsValue ==
    IF fn = "fit"
    THEN DumpedCommon @@ [max_steps |-> max_steps,
                          limit_val_batches |-> limit_batches["val"]]
    ELSE IF has_verbose
         THEN DumpedCommon @@
              [limit_eval_batches |-> limit_batches[DataloaderPrefix(fn)],
               loop_verbose |-> verbose]
         ELSE DumpedCommon @@
              [limit_eval_batches |-> limit_batches[DataloaderPrefix(fn)]]

\* trainer.logger = DummyLogger() if trainer.logger is not None else None
TrialLoggerKept == logger
TrialLogger == IF logger # "None" THEN "DummyLogger" ELSE "None"

\* the limit_*_batches after _reset_params
TrialLimitBatches ==
    IF fn = "fit"
    THEN [limit_batches EXCEPT !["val"] = steps_per_trial]
    ELSE [limit_batches EXCEPT ![DataloaderPrefix(fn)] = steps_per_trial]

TrialMaxSteps == IF fn = "fit" THEN steps_per_trial ELSE max_steps

TrialVerbose == IF fn # "fit" /\ has_verbose THEN FALSE ELSE verbose

\* the values _restore_params writes back
RestoredLogger == dumped_params.logger

RestoredCallbacks == dumped_params.callbacks

RestoredMaxSteps == IF fn = "fit" THEN dumped_params.max_steps ELSE max_steps

RestoredLimitBatchesKept == limit_batches
RestoredLimitBatches ==
    IF fn = "fit"
    THEN [limit_batches EXCEPT !["val"] = dumped_params.limit_val_batches]
    ELSE [limit_batches EXCEPT
            ![DataloaderPrefix(fn)] = dumped_params.limit_eval_batches]

RestoredVerbose ==
    IF "loop_verbose" \in DOMAIN dumped_params
    THEN dumped_params.loop_verbose ELSE verbose

\* loop.load_state_dict(deepcopy(self._dumped_params["loop_state_dict"]))
RestoredLoopState == dumped_params.loop_state_dict

\* loop.restarting = False after the reload (the reload itself marks the
\* loop as restarting)
RestartingAfterReload == FALSE

(* ------------------------------------------------------------------ *)
(* Initial states: one finder, one trainer, before the lifecycle hook  *)
(* ------------------------------------------------------------------ *)
Phases == {"fit", "validate", "test", "predict"}

\* how the trainer is set up around the search
Orchestrations ==
    {o \in [fn : Phases, has_verbose : BOOLEAN, logger : {"None", "user"},
            early_exit : BOOLEAN] :
        o.fn = "fit" => ~o.has_verbose}

FixedOrchestration ==
    [fn |-> "fit", has_verbose |-> FALSE, logger |-> "user",
     early_exit |-> FALSE]

Lengths == {[has_len |-> FALSE, dataset_len |-> 0]}
           \cup {[has_len |-> TRUE, dataset_len |-> n] : n \in 1..MaxLen}

\* searches whose trials may end in any way
FreeSearches ==
    [mode : SUPPORTED_MODES, init_val : 1..MaxInit, max_trials : 1..MaxTrials,
     len : Lengths, prior : 1..MaxPrior, oracle : {"free"},
     oom_threshold : {0}]

\* searches against a monotone memory limit, or one that is never hit
ThresholdSearches ==
    [mode : SUPPORTED_MODES, init_val : 1..MaxInit,
     max_trials : (1..MaxTrials) \cup {DefaultMaxTrials},
     len : Lengths, prior : {1}, oracle : {"threshold"},
     oom_threshold : 2..MaxThreshold]
    \cup
    [mode : SUPPORTED_MODES, init_val : 1..MaxInit,
     max_trials : (1..MaxTrials) \cup {DefaultMaxTrials},
     len : Lengths, prior : {1}, oracle : {"never"},
     oom_threshold : {0}]

\* spec scenarios A, B and C
ScenarioA ==
    [mode |-> "power", init_val |-> DefaultInitVal,
     max_trials |-> DefaultMaxTrials,
     len |-> [has_len |-> TRUE, dataset_len |-> 1000], prior |-> 1,
     oracle |-> "never", oom_threshold |-> 0]
ScenarioB ==
    [mode |-> "power", init_val |-> DefaultInitVal,
     max_trials |-> DefaultMaxTrials,
     len |-> [has_len |-> FALSE, dataset_len |-> 0], prior |-> 1,
     oracle |-> "threshold", oom_threshold |-> 256]
ScenarioC ==
    [mode |-> "binsearch", init_val |-> DefaultInitVal,
     max_trials |-> DefaultMaxTrials,
     len |-> [has_len |-> FALSE, dataset_len |-> 0], prior |-> 1,
     oracle |-> "threshold", oom_threshold |-> 256]

\* what setup() can find: a single dataloader or a list of them for the
\* stage, a distributed strategy or not, the train dataloader from the module
\* or passed to the entry point, the batch-size field present or not
SetupInputs ==
    {i \in [is_distributed : BOOLEAN, train_source_is_module : BOOLEAN,
            eval_is_list : BOOLEAN, n_eval_dataloaders : 1..MaxDataloaders,
            has_batch_arg : BOOLEAN] :
        ~i.eval_is_list => i.n_eval_dataloaders = 1}

\* the set-up every check of setup() accepts
PlainSetup ==
    [is_distributed |-> FALSE, train_source_is_module |-> TRUE,
     eval_is_list |-> FALSE, n_eval_dataloaders |-> 1, has_batch_arg |-> TRUE]

\* one-trial searches used to exercise setup() in both modes
ShortSearches ==
    [mode : SUPPORTED_MODES, init_val : {1}, max_trials : {1},
     len : {[has_len |-> FALSE, dataset_len |-> 0]}, prior : {1},
     oracle : {"never"}, oom_threshold : {0}]

Configurations ==
    [orch : Orchestrations, search : FreeSearches, fast_dev_run : {FALSE},
     setup : {PlainSetup}]
    \cup [orch : {FixedOrchestration},
          search : ThresholdSearches \cup {ScenarioA, ScenarioB, ScenarioC},
          fast_dev_run : {FALSE}, setup : {PlainSetup}]
    \cup [orch : Orchestrations, search : {ScenarioA}, fast_dev_run : {TRUE},
          setup : {PlainSetup}]
    \cup [orch : Orchestrations, search : ShortSearches,
          fast_dev_run : {FALSE}, setup : SetupInputs]

InitialLimitBatches == [p \in {"val", "test", "predict"} |->
                          CASE p = "val" -> 10 [] p = "test" -> 11 [] OTHER -> 12]

NoAdjustCalls == [value |-> 0, calls |-> 0, first |-> 0, changed |-> FALSE]

\* the finder after __init__ with configuration c, the trainer before pc0
InitAt(c, pc0) ==
        /\ mode = c.search.mode
        /\ steps_per_trial = DefaultStepsPerTrial
        /\ init_val = c.search.init_val
        /\ max_trials = c.search.max_trials
        /\ early_exit = c.orch.early_exit
        /\ optimal_batch_size = c.search.init_val
        /\ dumped_params = EmptyDict
        /\ fn = c.orch.fn
        /\ fast_dev_run = c.fast_dev_run
        /\ has_verbose = c.orch.has_verbose
        /\ is_distributed = c.setup.is_distributed
        /\ train_source_is_module = c.setup.train_source_is_module
        /\ eval_is_list = c.setup.eval_is_list
        /\ n_eval_dataloaders = c.setup.n_eval_dataloaders
        /\ has_batch_arg = c.setup.has_batch_arg
        /\ has_len = c.search.len.has_len
        /\ dataset_len = c.search.len.dataset_len
        /\ oracle = c.search.oracle
        /\ oom_threshold = c.search.oom_threshold
        /\ logger = c.orch.logger
        /\ callbacks = <<"BatchSizeFinder", "ProgressBar">>
        /\ max_steps = -1
        /\ limit_batches = InitialLimitBatches
        /\ verbose = TRUE
        /\ loop_state = 0
        /\ restarting = FALSE
        /\ model_state = "pristine"
        /\ batch_size = c.search.prior
        /\ dl_batch_size = c.search.prior
        /\ ckpt = "none"
        /\ pc = pc0
        /\ new_size = 0
        /\ low = 0
        /\ high = NoneVal
        /\ count = 0
        /\ iter = 0
        /\ raised = "none"
        /\ pre = [logger |-> logger, callbacks |-> callbacks,
                  max_steps |-> max_steps, limit_batches |-> limit_batches,
                  verbose |-> verbose, loop_state |-> loop_state,
                  model_state |-> model_state, batch_size |-> batch_size]
        /\ trials = 0
        /\ n_ok = 0
        /\ ok_at = {}
        /\ oom_at = {}
        /\ last_tried = 0
        /\ last_ok = 0
        /\ last_outcome = "none"
        /\ stop = "none"
        /\ ckpt_saves = 0
        /\ ckpt_reloaded = FALSE
        /\ signals = 0

Init ==
    \E c \in Configurations :
        /\ InitAt(c, "setup")
        /\ adj = NoAdjustCalls

(* ------------------------------------------------------------------ *)
(* setup: validation before any lifecycle hook runs                    *)
(* ------------------------------------------------------------------ *)
\* trainer._accelerator_connector.is_distributed
RejectsDistributed == is_distributed

\* not trainer._data_connector._train_dataloader_source.is_module()
RejectsDirectDataloader == ~train_source_is_module

\* stage != "fit" and the stage's dataloaders are a list of more than one
RejectsMultipleEval ==
    fn # "fit" /\ eval_is_list /\ n_eval_dataloaders > 1

\* not lightning_hasattr(pl_module, self.batch_arg_name)
RejectsMissingFieldNever == FALSE
RejectsMissingField == ~has_batch_arg

\* setup raises MisconfigurationException
SetupRejects ==
    \/ RejectsDistributed
    \/ RejectsDirectDataloader
    \/ RejectsMultipleEval
    \/ RejectsMissingField

SetupRaises ==
    /\ pc = "setup"
    /\ SetupRejects
    /\ raised' = "MisconfigurationException"
    /\ pc' = "misconfigured"
    /\ UNCHANGED <<cfgVars, adj, orchVars, loopVars, searchVars, histVars, ckptVars,
                   optimal_batch_size, dumped_params, model_state, batch_size,
                   dl_batch_size, stop>>

\* setup returns; the trainer then calls the hook of the running phase
\* (on_fit_start, on_validation_start with state.fn = "validate",
\* on_test_start, on_predict_start), which calls scale_batch_size
SetupPasses ==
    /\ pc = "setup"
    /\ ~SetupRejects
    /\ pc' = "idle"
    /\ UNCHANGED <<cfgVars, adj, orchVars, loopVars, searchVars, histVars, ckptVars,
                   optimal_batch_size, dumped_params, model_state, batch_size,
                   dl_batch_size, raised, stop>>

(* ------------------------------------------------------------------ *)
(* scale_batch_size: short circuit, checkpoint, snapshot, first adjust *)
(* ------------------------------------------------------------------ *)

\* if trainer.fast_dev_run:
SkipsSearchNever == FALSE
SkipsSearch == fast_dev_run

\* warn and return
FastDevRunSkip ==
    /\ pc = "idle"
    /\ SkipsSearch
    /\ pc' = "returned"
    /\ UNCHANGED <<cfgVars, adj, orchVars, loopVars, searchVars, histVars, ckptVars,
                   optimal_batch_size, dumped_params, model_state, batch_size,
                   dl_batch_size, raised, stop>>

\* trainer.save_checkpoint(ckpt_path)
SaveCheckpoint ==
    /\ pc = "idle"
    /\ ~SkipsSearch
    /\ ckpt' = model_state
    /\ ckpt_saves' = ckpt_saves + 1
    /\ pc' = "dump"
    /\ UNCHANGED <<cfgVars, adj, orchVars, loopVars, searchVars, histVars,
                   ckpt_reloaded, optimal_batch_size, dumped_params,
                   model_state, batch_size, dl_batch_size, raised, stop>>

\* self._dump_params(trainer)
DumpParams ==
    /\ pc = "dump"
    /\ dumped_params' = DumpParamsValue
    /\ pc' = "reset"
    /\ UNCHANGED <<cfgVars, adj, orchVars, loopVars, searchVars, histVars, ckptVars,
                   optimal_batch_size, model_state, batch_size, dl_batch_size,
                   raised, stop>>

\* self._reset_params(trainer)
ResetParams ==
    /\ pc = "reset"
    /\ logger' = TrialLogger
    /\ callbacks' = << >>
    /\ limit_batches' = TrialLimitBatches
    /\ max_steps' = TrialMaxSteps
    /\ verbose' = TrialVerbose
    /\ pc' = "init_adjust"
    /\ UNCHANGED <<cfgVars, adj, loopVars, searchVars, histVars, ckptVars,
                   optimal_batch_size, dumped_params, model_state, batch_size,
                   dl_batch_size, raised, stop>>

\* new_size, _ = self._adjust_batch_size(trainer, value=self.init_val),
\* then the dispatch on self.mode and the locals of the chosen strategy
InitAdjust ==
    /\ pc = "init_adjust"
    /\ new_size' = AdjustedSize(1, init_val)
    /\ batch_size' = new_size'
    /\ low' = IF mode = "binsearch" THEN InitialLow ELSE low
    /\ high' = NoneVal
    /\ count' = 0
    /\ iter' = 0
    /\ pc' = IF mode = "power" THEN "power_loop" ELSE "binary_loop"
    /\ UNCHANGED <<cfgVars, adj, orchVars, loopVars, histVars, ckptVars,
                   optimal_batch_size, dumped_params, model_state,
                   dl_batch_size, raised, stop>>

(* ------------------------------------------------------------------ *)
(* _try_loop_run                                                       *)
(* ------------------------------------------------------------------ *)
\* the progress state a trial starts from
TrialLoopStateLive == loop_state
TrialLoopState == dumped_params.loop_state_dict

\* loop.load_state_dict(...); loop.restarting = False, up to loop.run()
TryLoopRunBegin ==
    /\ loop_state' = TrialLoopState
    /\ restarting' = RestartingAfterReload

\* what loop.run() and the bookkeeping of one trial with outcome o leave;
\* the run may leave the loop marked as restarting
TrialRan(o) ==
    /\ loop_state' \in LoopRunStates(o)
    /\ restarting' \in BOOLEAN
    /\ model_state' = IF fn = "fit" THEN "trained" ELSE model_state
    /\ trials' = trials + 1
    /\ last_tried' = batch_size
    /\ last_outcome' = o
    /\ signals' = signals
    /\ n_ok' = IF o = "ok" THEN n_ok + 1 ELSE n_ok
    /\ last_ok' = IF o = "ok" THEN batch_size ELSE last_ok
    /\ ok_at' = IF o = "ok" THEN ok_at \cup {batch_size} ELSE ok_at
    /\ oom_at' = IF o = "oom" THEN oom_at \cup {batch_size} ELSE oom_at

\* raise: the RuntimeError leaves scale_batch_size
Propagate ==
    /\ raised' = "RuntimeError"
    /\ pc' = "aborted"
    /\ stop' = "fatal"

(* ------------------------------------------------------------------ *)
(* _run_power_scaling                                                  *)
(* ------------------------------------------------------------------ *)
\* for _ in range(self.max_trials)
PowerLoopContinuesOneMore == iter <= max_trials
PowerLoopContinues == iter < max_trials

\* self._adjust_batch_size(trainer, factor=2.0, desc="succeeded")
PowerSuccessSize == AdjustedSize(2, NoneVal)

\* self._adjust_batch_size(trainer) in the OOM branch
PowerOomSize == AdjustedSize(1, NoneVal)

PowerBeginTrial ==
    /\ pc = "power_loop"
    /\ PowerLoopContinues
    /\ iter' = iter + 1
    /\ TryLoopRunBegin
    /\ pc' = "power_running"
    /\ UNCHANGED <<cfgVars, adj, orchVars, new_size, low, high, count, histVars,
                   ckptVars, optimal_batch_size, dumped_params, model_state,
                   batch_size, dl_batch_size, raised, stop>>

\* the range is exhausted: return new_size
PowerExhausted ==
    /\ pc = "power_loop"
    /\ ~PowerLoopContinues
    /\ stop' = "max_trials"
    /\ pc' = "restore"
    /\ UNCHANGED <<cfgVars, adj, orchVars, loopVars, searchVars, histVars, ckptVars,
                   optimal_batch_size, dumped_params, model_state, batch_size,
                   dl_batch_size, raised>>

\* loop.run() returned or raised, and the branch taken on its outcome
PowerTrialEnd ==
    /\ pc = "power_running"
    /\ \E o \in TrialOutcomes(batch_size) :
        /\ TrialRan(o)
        /\ IF o = "ok"
           THEN LET n == PowerSuccessSize IN
                /\ new_size' = n
                /\ batch_size' = n
                /\ dl_batch_size' = DataloaderAfter(n)
                /\ pc' = IF Changed(n) THEN "power_loop" ELSE "restore"
                /\ stop' = IF Changed(n) THEN stop ELSE "unchanged"
                /\ raised' = raised
           ELSE IF IsOomError(o)
           THEN LET n == PowerOomSize IN
                /\ new_size' = n
                /\ batch_size' = n
                /\ dl_batch_size' = dl_batch_size
                /\ pc' = "restore"
                /\ stop' = "oom"
                /\ raised' = raised
           ELSE /\ Propagate
                /\ UNCHANGED <<new_size, batch_size, dl_batch_size>>
    /\ UNCHANGED <<cfgVars, adj, orchVars, low, high, count, iter, ckptVars,
                   optimal_batch_size, dumped_params>>

(* ------------------------------------------------------------------ *)
(* _run_binary_scaling                                                 *)
(* ------------------------------------------------------------------ *)
\* if high: (None and 0 are both falsy)
Truthy(h) == h # NoneVal /\ h # 0

\* if count > self.max_trials: break
CountExceededLate(c) == c > max_trials + 1
CountExceeded(c) == c > max_trials

\* if high - low <= 1: break
ConvergedNever(h, l) == FALSE
Converged(h, l) == h - l <= 1

\* midval = (high + low) // 2
MidvalHigh(h, l) == h
MidvalRoundedUp(h, l) == (h + l + 1) \div 2
Midval(h, l) == (h + l) \div 2

BinaryBeginTrial ==
    /\ pc = "binary_loop"
    /\ TryLoopRunBegin
    /\ pc' = "binary_running"
    /\ UNCHANGED <<cfgVars, adj, orchVars, searchVars, histVars, ckptVars,
                   optimal_batch_size, dumped_params, model_state, batch_size,
                   dl_batch_size, raised, stop>>

\* the success branch after count += 1 did not exceed max_trials
BinarySuccess ==
    /\ low' = new_size
    /\ high' = high
    /\ raised' = raised
    /\ IF Truthy(high) /\ Converged(high, low')
       THEN /\ pc' = "restore"
            /\ stop' = "converged"
            /\ UNCHANGED <<new_size, batch_size, dl_batch_size>>
       ELSE LET n == IF Truthy(high)
                     THEN AdjustedSize(1, Midval(high, low'))
                     ELSE AdjustedSize(2, NoneVal) IN
            /\ new_size' = n
            /\ batch_size' = n
            /\ dl_batch_size' = DataloaderAfter(n)
            /\ pc' = IF Changed(n) THEN "binary_loop" ELSE "restore"
            /\ stop' = IF Changed(n) THEN stop ELSE "unchanged"

\* the OOM branch
BinaryOom ==
    /\ high' = new_size
    /\ low' = low
    /\ raised' = raised
    /\ LET n == AdjustedSize(1, Midval(high', low)) IN
        /\ new_size' = n
        /\ batch_size' = n
        /\ dl_batch_size' = DataloaderAfter(n)
    /\ pc' = IF Converged(high', low) THEN "restore" ELSE "binary_loop"
    /\ stop' = IF Converged(high', low) THEN "oom_converged" ELSE stop

BinaryTrialEnd ==
    /\ pc = "binary_running"
    /\ \E o \in TrialOutcomes(batch_size) :
        /\ TrialRan(o)
        /\ IF o = "ok"
           THEN /\ count' = count + 1
                /\ IF CountExceeded(count')
                   THEN /\ pc' = "restore"
                        /\ stop' = "max_trials"
                        /\ UNCHANGED <<new_size, low, high, batch_size,
                                       dl_batch_size, raised>>
                   ELSE BinarySuccess
           ELSE IF IsOomError(o)
           THEN /\ count' = count
                /\ BinaryOom
           ELSE /\ Propagate
                /\ UNCHANGED <<new_size, low, high, count, batch_size,
                               dl_batch_size>>
    /\ UNCHANGED <<cfgVars, adj, orchVars, iter, ckptVars, optimal_batch_size,
                   dumped_params>>

(* ------------------------------------------------------------------ *)
(* scale_batch_size: restoration and result                            *)
(* ------------------------------------------------------------------ *)
\* _collect_garbage(trainer); log.info(...); self._restore_params(trainer)
RestoreParams ==
    /\ pc = "restore"
    /\ logger' = RestoredLogger
    /\ callbacks' = RestoredCallbacks
    /\ max_steps' = RestoredMaxSteps
    /\ limit_batches' = RestoredLimitBatches
    /\ verbose' = RestoredVerbose
    /\ loop_state' = RestoredLoopState
    /\ restarting' = RestartingAfterReload
    /\ pc' = "ckpt_restore"
    /\ UNCHANGED <<cfgVars, adj, searchVars, histVars, ckptVars, optimal_batch_size,
                   dumped_params, model_state, batch_size, dl_batch_size,
                   raised, stop>>

\* trainer._checkpoint_connector.restore(ckpt_path): the saved model and
\* optimizer state replace the live one; the artifact was saved before the
\* search, so the trainer fields it carries are the pre-search ones
RestoreCheckpoint ==
    /\ pc = "ckpt_restore"
    /\ ckpt # "none"
    /\ model_state' = ckpt
    /\ ckpt_reloaded' = TRUE
    /\ pc' = "ckpt_remove"
    /\ UNCHANGED <<cfgVars, adj, orchVars, loopVars, searchVars, histVars, ckpt,
                   ckpt_saves, optimal_batch_size, dumped_params, batch_size,
                   dl_batch_size, raised, stop>>

RemoveCheckpointForgotten ==
    /\ pc = "ckpt_remove"
    /\ pc' = "set_optimal"
    /\ UNCHANGED <<cfgVars, adj, orchVars, loopVars, searchVars, histVars, ckptVars,
                   optimal_batch_size, dumped_params, model_state, batch_size,
                   dl_batch_size, raised, stop>>

\* trainer.strategy.remove_checkpoint(ckpt_path)
RemoveCheckpoint ==
    /\ pc = "ckpt_remove"
    /\ ckpt' = "none"
    /\ pc' = "set_optimal"
    /\ UNCHANGED <<cfgVars, adj, orchVars, loopVars, searchVars, histVars,
                   ckpt_saves, ckpt_reloaded, optimal_batch_size,
                   dumped_params, model_state, batch_size, dl_batch_size,
                   raised, stop>>

SetOptimalSkipped ==
    /\ pc = "set_optimal"
    /\ pc' = "exit_check"
    /\ UNCHANGED <<cfgVars, adj, orchVars, loopVars, searchVars, histVars,
                   ckptVars, optimal_batch_size, dumped_params, model_state,
                   batch_size, dl_batch_size, raised, stop>>

\* self.optimal_batch_size = new_size
SetOptimal ==
    /\ pc = "set_optimal"
    /\ optimal_batch_size' = new_size
    /\ pc' = "exit_check"
    /\ UNCHANGED <<cfgVars, adj, orchVars, loopVars, searchVars, histVars, ckptVars,
                   dumped_params, model_state, batch_size, dl_batch_size,
                   raised, stop>>

\* if self._early_exit:
RaisesTunerExitAlways == TRUE
RaisesTunerExit == early_exit

\* raise _TunerExitException()
RaiseTunerExit ==
    /\ pc = "exit_check"
    /\ RaisesTunerExit
    /\ raised' = "_TunerExitException"
    /\ signals' = signals + 1
    /\ pc' = "tuner_exit"
    /\ UNCHANGED <<cfgVars, adj, orchVars, loopVars, searchVars, trialVars, ckptVars,
                   optimal_batch_size, dumped_params, model_state, batch_size,
                   dl_batch_size, stop>>

\* the implicit return at the end of scale_batch_size
ReturnNormally ==
    /\ pc = "exit_check"
    /\ ~RaisesTunerExit
    /\ pc' = "returned"
    /\ UNCHANGED <<cfgVars, adj, orchVars, loopVars, searchVars, histVars, ckptVars,
                   optimal_batch_size, dumped_params, model_state, batch_size,
                   dl_batch_size, raised, stop>>

Next ==
    \/ SetupRaises
    \/ SetupPasses
    \/ FastDevRunSkip
    \/ SaveCheckpoint
    \/ DumpParams
    \/ ResetParams
    \/ InitAdjust
    \/ PowerBeginTrial
    \/ PowerExhausted
    \/ PowerTrialEnd
    \/ BinaryBeginTrial
    \/ BinaryTrialEnd
    \/ RestoreParams
    \/ RestoreCheckpoint
    \/ RemoveCheckpoint
    \/ SetOptimal
    \/ RaiseTunerExit
    \/ ReturnNormally

Spec == Init /\ [][Next]_vars

\* scale_batch_size is straight-line code run by one thread: a step that
\* can be taken is eventually taken
FairSpec == Spec /\ WF_vars(Next)

(* ------------------------------------------------------------------ *)
(* _adjust_batch_size called on its own with an explicit value         *)
(* ------------------------------------------------------------------ *)
AdjusterConfigurations ==
    [orch : Orchestrations,
     search : [mode : {"power"}, init_val : {1}, max_trials : {1},
               len : Lengths, prior : 1..(MaxLen + 1), oracle : {"never"},
               oom_threshold : {0}],
     fast_dev_run : {FALSE}, setup : {PlainSetup}]

AdjusterInit ==
    \E c \in AdjusterConfigurations, v \in 1..(MaxLen + 2) :
        /\ InitAt(c, "adjust")
        /\ adj = [NoAdjustCalls EXCEPT !.value = v]

\* self._adjust_batch_size(trainer, value=v)
AdjustExplicit ==
    /\ pc = "adjust"
    /\ adj.calls < 2
    /\ LET n == AdjustedSize(1, adj.value) IN
        /\ new_size' = n
        /\ batch_size' = n
        /\ adj' = [adj EXCEPT !.calls = @ + 1,
                              !.changed = Changed(n),
                              !.first = IF adj.calls = 0 THEN n ELSE @]
    /\ UNCHANGED <<cfgVars, orchVars, loopVars, low, high, count, iter,
                   histVars, ckptVars, optimal_batch_size, dumped_params,
                   model_state, dl_batch_size, pc, raised, stop>>

\* self._reset_dataloaders(trainer, pl_module) between the two calls
ResetDataloadersBetween ==
    /\ pc = "adjust"
    /\ adj.calls = 1
    /\ dl_batch_size # batch_size
    /\ dl_batch_size' = batch_size
    /\ UNCHANGED <<cfgVars, adj, orchVars, loopVars, searchVars, histVars,
                   ckptVars, optimal_batch_size, dumped_params, model_state,
                   batch_size, pc, raised, stop>>

AdjusterNext ==
    \/ AdjustExplicit
    \/ ResetDataloadersBetween

AdjusterSpec == AdjusterInit /\ [][AdjusterNext]_vars

(* ------------------------------------------------------------------ *)
(* Vocabulary of the properties                                        *)
(* ------------------------------------------------------------------ *)
\* scale_batch_size has completed: normal return or search-complete signal
Completed == pc \in {"returned", "tuner_exit"}

\* a completed invocation that was not short-circuited by fast_dev_run
SearchCompleted == Completed /\ ~fast_dev_run

\* the snapshot fields equal their values before the search
OrchestrationRestored ==
    /\ logger = pre.logger
    /\ callbacks = pre.callbacks
    /\ max_steps = pre.max_steps
    /\ limit_batches = pre.limit_batches
    /\ verbose = pre.verbose
    /\ loop_state = pre.loop_state

\* C1: after scale_batch_size completes (normal return or search-complete
\* signal), in either mode, any phase and for any trial outcomes, logger,
\* callbacks, step/batch limits, loop verbosity and loop progress state equal
\* their pre-search values and the loop's restarting flag is false.
C1_RestoredAfterCompletion ==
    Completed => (OrchestrationRestored /\ restarting = FALSE)

C1_Witness ==
    /\ pc = "tuner_exit"
    /\ fn = "validate"
    /\ has_verbose
    /\ pre.logger = "user"
    /\ oom_at # {}
    /\ ok_at # {}

\* C2: when a trial raises a non-OOM failure, the orchestration state is as
\* it was before the search at the moment the failure reaches the caller.
C2_RestoredOnAbort ==
    pc = "aborted" => OrchestrationRestored

\* C3: a search that is not short-circuited saves exactly one checkpoint,
\* before any orchestration field is mutated and before the first trial; after
\* the search completes the artifact no longer exists, and it is deleted only
\* after it was reloaded into the live model state.
C3_CheckpointLifecycle ==
    /\ ckpt_saves <= 1
    /\ (~fast_dev_run /\ pc \notin {"setup", "misconfigured", "idle"})
          => ckpt_saves = 1
    /\ (~OrchestrationRestored \/ trials > 0 \/ batch_size # pre.batch_size
        \/ dumped_params # EmptyDict) => ckpt_saves = 1
    /\ ckpt # "none" => ckpt = pre.model_state
    /\ (ckpt_saves = 1 /\ ckpt = "none") => ckpt_reloaded
    /\ SearchCompleted =>
          (ckpt = "none" /\ ckpt_reloaded /\ model_state = pre.model_state)

C3_Witness ==
    /\ pc = "returned"
    /\ fn = "fit"
    /\ trials > 1
    /\ ckpt_saves = 1
    /\ ckpt = "none"

\* C4: in power mode, when a trial raises OOM the search ends and the value
\* returned and left in the hyperparameter store is the last value whose
\* trial succeeded, not the value that raised OOM.
C4_PowerOomReturnsLastSuccess ==
    (SearchCompleted /\ mode = "power" /\ stop = "oom" /\ ok_at # {}) =>
        (new_size = last_ok /\ batch_size = last_ok
         /\ optimal_batch_size = last_ok)

\* C5 as stated: in power mode, if max_trials trials all succeed and the
\* size changed after each, the search returns the last value run in a trial.
C5_ReturnsLastTried ==
    (SearchCompleted /\ mode = "power" /\ stop = "max_trials") =>
        new_size = last_tried

\* the doubled value after the dataset-length clamp
ClampedDouble(v) ==
    IF has_len THEN Min(2 * v, dataset_len) ELSE 2 * v

\* C5 amended: in power mode, if max_trials trials all succeed and the size
\* changed after each, the search ends after exactly max_trials trials and
\* returns the value obtained by doubling (with the dataset-length clamp) the
\* last value run in a trial, a value that was itself never run in a trial.
C5_ReturnsNextUntried ==
    (SearchCompleted /\ mode = "power" /\ stop = "max_trials") =>
        /\ trials = max_trials
        /\ n_ok = max_trials
        /\ new_size = ClampedDouble(last_tried)
        /\ new_size > last_tried
        /\ new_size \notin (ok_at \cup oom_at)
        /\ optimal_batch_size = new_size

C5_Witness ==
    /\ SearchCompleted
    /\ mode = "power"
    /\ stop = "max_trials"
    /\ max_trials = 3
    /\ has_len
    /\ new_size = dataset_len

RECURSIVE LargestScaled(_, _)
\* the largest v * 2^k that is <= L, for v <= L
LargestScaled(v, L) == IF 2 * v <= L THEN LargestScaled(2 * v, L) ELSE v

\* the search ended because an adjustment left the value unchanged, with no
\* OOM on the way: max_trials did not bind
PowerCeilingFound ==
    /\ SearchCompleted
    /\ mode = "power"
    /\ has_len
    /\ init_val <= dataset_len
    /\ oom_at = {}
    /\ stop = "unchanged"

\* C6 as stated: power mode, dataset of knowable length L, initVal <= L, no
\* OOM, max_trials not binding: the result is the largest initVal * 2^k <= L.
C6_ResultIsLargestScaled ==
    PowerCeilingFound => new_size = LargestScaled(init_val, dataset_len)

\* C6 amended: under the same conditions the result is L itself: the doubled
\* value is clamped to the dataset length and the clamped value is returned.
C6_ResultIsDatasetLength ==
    PowerCeilingFound =>
        (new_size = dataset_len /\ optimal_batch_size = dataset_len
         /\ last_tried = dataset_len)

C6_Witness ==
    /\ PowerCeilingFound
    /\ new_size = dataset_len
    /\ LargestScaled(init_val, dataset_len) # dataset_len
    /\ trials > 2

\* spec scenario A: power mode, default init_val and max_trials, a dataset of
\* 1000 samples, no OOM
InScenarioA ==
    /\ mode = "power"
    /\ init_val = DefaultInitVal
    /\ max_trials = DefaultMaxTrials
    /\ has_len
    /\ dataset_len = 1000
    /\ oracle = "never"
    /\ ~fast_dev_run

\* C7: power mode, init_val 2, max_trials 25, dataset length 1000, no OOM: the
\* search returns 1000; the clamped value 1000 is itself tried, and the search
\* stops when a further doubling leaves the value unchanged.
C7_ScenarioAReturns1000 ==
    (Completed /\ InScenarioA) =>
        /\ new_size = 1000
        /\ optimal_batch_size = 1000
        /\ batch_size = 1000
        /\ last_tried = 1000
        /\ 1000 \in ok_at
        /\ 512 \in ok_at
        /\ stop = "unchanged"
        /\ trials < max_trials

C7_Witness ==
    /\ pc = "returned"
    /\ InScenarioA
    /\ new_size = 1000
    /\ stop = "unchanged"

\* a binsearch run against a monotone memory limit T >= 2 that neither
\* max_trials nor the dataset length cut short
BinsearchUnbound ==
    /\ SearchCompleted
    /\ mode = "binsearch"
    /\ oracle = "threshold"
    /\ oom_threshold >= 2
    /\ init_val >= 1
    /\ stop # "max_trials"
    /\ (~has_len \/ dataset_len >= oom_threshold)

\* C8: binsearch mode with a monotone OOM threshold T >= 2, any init_val >= 1,
\* max_trials and dataset length not binding: the search returns v = T - 1
\* (v fits, v + 1 does not); if no OOM was ever raised it returns the value the
\* growth phase reached, which is the last value tried.
C8_BinsearchFindsThreshold ==
    /\ BinsearchUnbound =>
          /\ new_size = oom_threshold - 1
          /\ optimal_batch_size = oom_threshold - 1
          /\ "ok" \in TrialOutcomes(new_size)
          /\ "ok" \notin TrialOutcomes(new_size + 1)
          /\ oom_threshold \in oom_at
          /\ (new_size \in ok_at \/ new_size = InitialLow)
    /\ (SearchCompleted /\ mode = "binsearch" /\ oom_at = {}) =>
          /\ high = NoneVal
          /\ new_size = last_tried
          /\ new_size \in ok_at
          /\ stop \in {"unchanged", "max_trials"}
          /\ (stop = "unchanged" => (has_len /\ new_size = dataset_len))

C8_Witness ==
    /\ BinsearchUnbound
    /\ init_val = DefaultInitVal
    /\ oom_threshold = 256
    /\ new_size = 255
    /\ 255 \in ok_at
    /\ 256 \in oom_at

\* C9 as stated: in both strategies the number of trials executed in one
\* search never exceeds max_trials.
C9_TrialsAtMostMaxTrials == trials <= max_trials

\* C9 amended: in power mode the number of trials never exceeds max_trials; in
\* binsearch mode only successful trials are counted and the search stops once
\* their number exceeds max_trials, so at most max_trials + 1 trials succeed
\* (trials that end in OOM are not limited by max_trials).
C9_CountedTrialsBounded ==
    /\ mode = "power" => trials <= max_trials
    /\ mode = "binsearch" => n_ok <= max_trials + 1

C9_Witness ==
    /\ SearchCompleted
    /\ mode = "binsearch"
    /\ n_ok = max_trials + 1
    /\ trials > max_trials + 1
    /\ stop = "max_trials"

\* C10: an out-of-memory failure raised by a trial never reaches the caller of
\* scale_batch_size: it is caught in both modes, and the search then either
\* ends normally with a result or goes on with a bisection step.
C10_OomNeverPropagates ==
    /\ (pc = "aborted" \/ raised = "RuntimeError") => last_outcome = "fatal"
    /\ last_outcome = "oom" =>
          /\ pc # "aborted"
          /\ raised # "RuntimeError"
          /\ mode = "power" => stop = "oom"
          /\ mode = "binsearch" =>
                (stop \in {"none", "oom_converged"} /\ high # NoneVal)

C10_Witness ==
    /\ pc = "returned"
    /\ mode = "binsearch"
    /\ last_outcome = "oom"
    /\ Cardinality(oom_at) >= 2
    /\ raised = "none"

\* C11: in both modes a non-OOM failure raised by a trial aborts the whole
\* search: the failure reaches the caller, no further trial is run, no further
\* batch-size adjustment is made and optimal_batch_size is not updated.
C11_FatalAbortsSearch ==
    /\ last_outcome = "fatal" =>
          /\ pc = "aborted"
          /\ raised = "RuntimeError"
          /\ stop = "fatal"
    /\ pc = "aborted" =>
          /\ last_outcome = "fatal"
          /\ batch_size = last_tried
          /\ new_size = last_tried
          /\ optimal_batch_size = init_val
          /\ ~ENABLED Next

C11_Witness ==
    /\ pc = "aborted"
    /\ mode = "binsearch"
    /\ trials > 2
    /\ oom_at # {}
    /\ ok_at # {}
    /\ optimal_batch_size # batch_size

\* a configuration the finder does not support
InvalidConfiguration ==
    \/ is_distributed
    \/ ~train_source_is_module
    \/ (fn # "fit" /\ n_eval_dataloaders > 1)
    \/ ~has_batch_arg

\* C12: setup raises a configuration error, whatever the search mode, when
\* execution is distributed, the train dataloader was supplied directly, a
\* non-fit phase has more than one dataloader or the batch-size field is
\* absent; the error comes before any trial and no checkpoint is created.
C12_SetupRejectsInvalid ==
    InvalidConfiguration =>
        /\ pc \in {"setup", "misconfigured"}
        /\ pc = "misconfigured" => raised = "MisconfigurationException"
        /\ trials = 0
        /\ ckpt_saves = 0
        /\ ckpt = "none"
        /\ batch_size = pre.batch_size
        /\ OrchestrationRestored

C12_Witness ==
    /\ pc = "misconfigured"
    /\ raised = "MisconfigurationException"
    /\ mode = "binsearch"
    /\ ~has_batch_arg
    /\ ~is_distributed
    /\ train_source_is_module
    /\ n_eval_dataloaders = 1

\* C13: with fast_dev_run active scale_batch_size does nothing: no checkpoint
\* is created, no orchestration field and no hyperparameter value changes, no
\* trial runs, optimal_batch_size keeps init_val and no search-complete signal
\* is raised.
C13_FastDevRunDoesNothing ==
    fast_dev_run =>
        /\ pc \in {"setup", "idle", "returned"}
        /\ ckpt_saves = 0
        /\ ckpt = "none"
        /\ dumped_params = EmptyDict
        /\ OrchestrationRestored
        /\ restarting = FALSE
        /\ batch_size = pre.batch_size
        /\ model_state = pre.model_state
        /\ trials = 0
        /\ optimal_batch_size = init_val
        /\ raised = "none"
        /\ signals = 0

C13_Witness ==
    /\ fast_dev_run
    /\ pc = "returned"
    /\ early_exit
    /\ pre.logger = "user"
    /\ init_val # pre.batch_size

\* C14: with early exit configured the search-complete signal is raised
\* exactly once per completed search and only after restoration: when it is
\* raised the snapshot is restored, the checkpoint reloaded and deleted and
\* optimal_batch_size holds the discovered value; without early exit it is
\* never raised.
C14_SignalAfterRestoration ==
    /\ signals <= 1
    /\ signals = 1 <=> raised = "_TunerExitException"
    /\ raised = "_TunerExitException" =>
          /\ early_exit
          /\ pc = "tuner_exit"
          /\ OrchestrationRestored
          /\ restarting = FALSE
          /\ ckpt_reloaded
          /\ ckpt = "none"
          /\ model_state = pre.model_state
          /\ optimal_batch_size = new_size
          /\ optimal_batch_size = batch_size
    /\ (SearchCompleted /\ early_exit) => signals = 1
    /\ ~early_exit => (signals = 0 /\ pc # "tuner_exit")

C14_Witness ==
    /\ pc = "tuner_exit"
    /\ signals = 1
    /\ early_exit
    /\ trials > 1
    /\ optimal_batch_size # init_val
    /\ fn = "fit"

\* a trial is between its reload of the loop state and the end of loop.run()
TrialRunning == pc \in {"power_running", "binary_running"}

\* C15: trials run one at a time and every trial, whatever the outcome of
\* the trials before it, starts from the progress state captured before the
\* search with the loop's restarting flag cleared; what trials do to the live
\* loop never alters the captured copy.
C15_TrialsStartPristine ==
    /\ TrialRunning =>
          /\ loop_state = pre.loop_state
          /\ restarting = FALSE
    /\ "loop_state_dict" \in DOMAIN dumped_params =>
          dumped_params.loop_state_dict = pre.loop_state
    /\ (mode = "power" /\ ~TrialRunning) => iter = trials
    /\ (mode = "power" /\ TrialRunning) => iter = trials + 1

C15_Witness ==
    /\ TrialRunning
    /\ mode = "binsearch"
    /\ trials >= 2
    /\ last_outcome = "oom"
    /\ ok_at # {}
    /\ loop_state = pre.loop_state

\* C16: for any prior value of the store, any explicit value and any dataset
\* length, calling _adjust_batch_size twice in succession with the same
\* explicit value returns changed = False the second time and leaves the
\* store holding what the first call wrote, also when the dataloaders are
\* reset between the two calls.
C16_AdjusterIdempotent ==
    adj.calls = 2 =>
        /\ adj.changed = FALSE
        /\ batch_size = adj.first
        /\ new_size = adj.first

C16_Witness ==
    /\ adj.calls = 2
    /\ has_len
    /\ adj.value > dataset_len
    /\ adj.first = dataset_len
    /\ adj.first # pre.batch_size
    /\ dl_batch_size = adj.first
    /\ adj.changed = FALSE

\* the ways a strategy ends with a result
StopBranches ==
    {"oom", "unchanged", "converged", "oom_converged", "max_trials"}

\* C17: after a completed search the value recorded as optimal_batch_size
\* equals the value held in the model's hyperparameter store, in both modes
\* and on every termination branch of the strategy (OOM, unchanged value,
\* bisection converged, max_trials reached).
C17_OptimalIsInstalled ==
    SearchCompleted =>
        /\ stop \in StopBranches
        /\ optimal_batch_size = batch_size
        /\ optimal_batch_size = new_size

C17_Witness ==
    /\ SearchCompleted
    /\ mode = "binsearch"
    /\ stop = "oom_converged"
    /\ optimal_batch_size = batch_size
    /\ optimal_batch_size # init_val
    /\ optimal_batch_size # pre.batch_size

\* C18: while any trial is running the trial settings are in effect: the
\* logger is the no-op logger if one was configured and absent otherwise,
\* the callback list is empty (the finder itself is not among the callbacks
\* the running loop dispatches to), and the step/batch limit of the current
\* phase equals steps_per_trial.
C18_TrialSettingsInEffect ==
    TrialRunning =>
        /\ logger = (IF pre.logger # "None" THEN "DummyLogger" ELSE "None")
        /\ callbacks = << >>
        /\ fn = "fit" =>
              /\ max_steps = steps_per_trial
              /\ limit_batches["val"] = steps_per_trial
        /\ fn # "fit" =>
              limit_batches[DataloaderPrefix(fn)] = steps_per_trial

C18_Witness ==
    /\ TrialRunning
    /\ trials >= 1
    /\ pre.logger # "None"
    /\ logger = "DummyLogger"
    /\ pre.callbacks # << >>
    /\ callbacks = << >>
    /\ fn = "test"
    /\ limit_batches["test"] = steps_per_trial
    /\ pre.limit_batches["test"] # steps_per_trial

\* the invocation has left setup or scale_batch_size, normally or by raising
Terminated == pc \in {"returned", "tuner_exit", "aborted", "misconfigured"}

\* a binsearch trial ends in OOM
BinaryOomStep ==
    /\ pc = "binary_running"
    /\ trials' = trials + 1
    /\ last_outcome' = "oom"

\* the interval [low, high] after the step lies strictly inside the one
\* before it; an unset high is the unbounded interval
IntervalShrinks ==
    /\ low' = low
    /\ high' # NoneVal
    /\ low' <= high'
    /\ high # NoneVal => high' < high

\* C19: both strategies terminate for every positive init_val and max_trials
\* and every sequence of trial outcomes (success, OOM, other failure), with
\* or without a knowable dataset length: every invocation eventually leaves
\* the search; in binsearch mode each OOM strictly shrinks the interval
\* [low, high] or ends the search, and the successes are bounded by
\* max_trials (one more success is what ends the search); in power mode the
\* trials are bounded by max_trials.
C19_SearchTerminates ==
    /\ <>Terminated
    /\ [][BinaryOomStep => (pc' = "restore" \/ IntervalShrinks)]_vars
    /\ [](mode = "binsearch" => n_ok <= max_trials + 1)
    /\ [](mode = "power" => trials <= max_trials)

C19_Witness ==
    /\ SearchCompleted
    /\ mode = "binsearch"
    /\ oracle = "free"
    /\ ~has_len
    /\ Cardinality(oom_at) >= 2
    /\ n_ok >= 2
    /\ stop = "converged"

\* the initial adjustment of a search has been made
InitialAdjustmentDone ==
    /\ ~fast_dev_run
    /\ pc \in {"power_loop", "power_running", "binary_loop", "binary_running",
               "restore", "ckpt_restore", "ckpt_remove", "set_optimal",
               "exit_check", "returned", "tuner_exit", "aborted"}

\* C20: when the dataset length is knowable and init_val >= 1, from the
\* initial adjustment onward the batch size held in the model's
\* hyperparameter store stays within 1..dataset_len in both strategies, so
\* no trial, whatever its outcome, runs at a batch size larger than the
\* dataset.
C20_StoreWithinDataset ==
    (has_len /\ init_val >= 1 /\ InitialAdjustmentDone) =>
        /\ batch_size \in 1..dataset_len
        /\ new_size = batch_size
        /\ \A b \in ok_at \cup oom_at : b \in 1..dataset_len
        /\ trials > 0 => last_tried \in 1..dataset_len

C20_Witness ==
    /\ has_len
    /\ TrialRunning
    /\ trials >= 1
    /\ last_outcome = "ok"
    /\ init_val < dataset_len
    /\ 2 * last_tried > dataset_len
    /\ batch_size = dataset_len

\* the bisection state of a binsearch invocation whose high is set
BisectionUnderway ==
    /\ mode = "binsearch"
    /\ high # NoneVal

\* C21: in binsearch mode, in every reachable state where high is set,
\* low <= candidate <= high, high is a value at which a trial raised OOM and
\* low is either its initial value 1 or a value at which a trial succeeded;
\* consequently the value a completed binsearch returns, and records as
\* optimal, is either 1 or a value at which a trial of this search succeeded.
C21_BisectionBracket ==
    /\ BisectionUnderway =>
          /\ low <= new_size
          /\ new_size <= high
          /\ high \in oom_at
          /\ low = InitialLow \/ low \in ok_at
    /\ (SearchCompleted /\ mode = "binsearch") =>
          /\ new_size = InitialLow \/ new_size \in ok_at
          /\ optimal_batch_size = new_size

C21_Witness ==
    /\ BisectionUnderway
    /\ pc = "binary_running"
    /\ low # InitialLow
    /\ low \in ok_at
    /\ high \in oom_at
    /\ low < new_size
    /\ new_size < high
    /\ batch_size = new_size

====
